---- MODULE Spec2Model ----
(***************************************************************************)
(* Model of calculator.py: the four-number sequential calculator.          *)
(*                                                                         *)
(* An input line is a sequence of one-character strings.  A Python value   *)
(* is a record tagged "float" or "str" ("none" for a local not yet bound). *)
(* Floats are modelled as exact rationals <<n, d>> in lowest terms; binary *)
(* rounding is not modelled.  No branch of the program depends on a        *)
(* computed float: the only float test, b != 0 in bagi, is applied to an   *)
(* operand as it was parsed.                                               *)
(*                                                                         *)
(* The environment answers every input() with a line (end of input and     *)
(* interrupts are not modelled).                                           *)
(***************************************************************************)
EXTENDS Integers, Sequences, FiniteSets

VARIABLES
    pc,         \* position of the process
    i,          \* loop index of the running for loop (0-based, as in the code)
    nums,       \* local nums of main()
    operators,  \* local operators of main()
    hasil,      \* local hasil of main()
    inp,        \* the line most recently returned by input()
    out,        \* lines written to stdout since the current call of main() began
    exc         \* the exception that ended the process, "none" while it runs

vars == <<pc, i, nums, operators, hasil, inp, out, exc>>

-----------------------------------------------------------------------------
(* Bounds of the model *)

MaxOperand == 2   \* operand numerals typed are "0" .. MaxOperand
MaxWarn == 1      \* invalid operator lines typed per evaluation

(* Program constants *)

NumOperands == 4
NumOperators == 3

-----------------------------------------------------------------------------
(* Exact rationals *)

Abs(x) == IF x < 0 THEN -x ELSE x

RECURSIVE GCD(_, _)
GCD(a, b) == IF b = 0 THEN a ELSE GCD(b, a % b)

\* n/d in lowest terms with a positive denominator (d # 0)
Rat(n, d) ==
    LET g == GCD(Abs(n), Abs(d))
        s == IF d < 0 THEN -1 ELSE 1
    IN  <<(s * n) \div g, (s * d) \div g>>

RatAdd(p, q) == Rat(p[1] * q[2] + q[1] * p[2], p[2] * q[2])
RatSub(p, q) == Rat(p[1] * q[2] - q[1] * p[2], p[2] * q[2])
RatMul(p, q) == Rat(p[1] * q[1], p[2] * q[2])
RatDiv(p, q) == Rat(p[1] * q[2], p[2] * q[1])
RatIsZero(p) == p[1] = 0

-----------------------------------------------------------------------------
(* Python values and call outcomes *)

PyFloat(q) == [t |-> "float", q |-> q]
PyStr(s) == [t |-> "str", s |-> s]
Unbound == [t |-> "none"]

Ret(v) == [k |-> "ret", v |-> v]
Raise(e) == [k |-> "raise", e |-> e]

ErrBagi == PyStr("Error: Tidak bisa dibagi dengan 0")

-----------------------------------------------------------------------------
(* The arithmetic primitives.  The second argument is always an element of *)
(* nums, a float; the first is hasil, a float or a str.                    *)

tambah(a, b) ==
    IF a.t = "float" THEN Ret(PyFloat(RatAdd(a.q, b.q))) ELSE Raise("TypeError")

kurang(a, b) ==
    IF a.t = "float" THEN Ret(PyFloat(RatSub(a.q, b.q))) ELSE Raise("TypeError")

kali(a, b) ==
    IF a.t = "float" THEN Ret(PyFloat(RatMul(a.q, b.q))) ELSE Raise("TypeError")

\* slip: floor division, a // b
bagi_FloorDiv(a, b) ==
    IF ~RatIsZero(b.q)
    THEN IF a.t = "float"
         THEN Ret(PyFloat(Rat((a.q[1] * b.q[2]) \div (a.q[2] * b.q[1]), 1)))
         ELSE Raise("TypeError")
    ELSE Ret(ErrBagi)

\* slip: the zero test is missing, a / b raises
bagi_NoGuard(a, b) ==
    IF ~RatIsZero(b.q)
    THEN IF a.t = "float" THEN Ret(PyFloat(RatDiv(a.q, b.q))) ELSE Raise("TypeError")
    ELSE Raise("ZeroDivisionError")

bagi(a, b) ==
    IF ~RatIsZero(b.q)
    THEN IF a.t = "float" THEN Ret(PyFloat(RatDiv(a.q, b.q))) ELSE Raise("TypeError")
    ELSE Ret(ErrBagi)

-----------------------------------------------------------------------------
(* float(line): surrounding blanks are stripped, then an optional sign and *)
(* a decimal numeral with at least one digit and at most one point.  The   *)
(* lines of the model hold no exponent, underscore, "inf" or "nan".        *)

Digits == <<"0", "1", "2", "3", "4", "5", "6", "7", "8", "9">>
IsDigit(c) == \E k \in 1..10 : Digits[k] = c
DigitVal(c) == (CHOOSE k \in 1..10 : Digits[k] = c) - 1

RECURSIVE LStrip(_)
LStrip(s) == IF s # <<>> /\ s[1] = " " THEN LStrip(Tail(s)) ELSE s

RECURSIVE RStrip(_)
RStrip(s) ==
    IF s # <<>> /\ s[Len(s)] = " " THEN RStrip(SubSeq(s, 1, Len(s) - 1)) ELSE s

Strip(s) == RStrip(LStrip(s))

RECURSIVE DigitsVal(_)
DigitsVal(s) ==
    IF s = <<>> THEN 0
    ELSE DigitsVal(SubSeq(s, 1, Len(s) - 1)) * 10 + DigitVal(s[Len(s)])

RECURSIVE Pow10(_)
Pow10(n) == IF n = 0 THEN 1 ELSE 10 * Pow10(n - 1)

float(line) ==
    LET t == Strip(line)
        signed == t # <<>> /\ t[1] \in {"+", "-"}
        body == IF signed THEN Tail(t) ELSE t
        dots == {k \in DOMAIN body : body[k] = "."}
        wellformed ==
            /\ \A k \in DOMAIN body : IsDigit(body[k]) \/ body[k] = "."
            /\ Cardinality(dots) <= 1
            /\ \E k \in DOMAIN body : IsDigit(body[k])
        dot == IF dots = {} THEN Len(body) + 1 ELSE CHOOSE k \in dots : TRUE
        whole == SubSeq(body, 1, dot - 1)
        frac == SubSeq(body, dot + 1, Len(body))
        mag == Rat(DigitsVal(whole) * Pow10(Len(frac)) + DigitsVal(frac),
                   Pow10(Len(frac)))
        neg == signed /\ t[1] = "-"
    IN  IF wellformed
        THEN Ret(PyFloat(IF neg THEN RatSub(<<0, 1>>, mag) ELSE mag))
        ELSE Raise("ValueError")

(* str.lower() on the letters the model's lines hold *)

UpperLetters == <<"Y", "N", "E", "S">>
LowerLetters == <<"y", "n", "e", "s">>

LowerChar(c) ==
    IF \E k \in 1..Len(UpperLetters) : UpperLetters[k] = c
    THEN LowerLetters[CHOOSE k \in 1..Len(UpperLetters) : UpperLetters[k] = c]
    ELSE c

lower(line) == [k \in DOMAIN line |-> LowerChar(line[k])]

-----------------------------------------------------------------------------
(* Lines the user types *)

OperandLines ==
    {<<Digits[n + 1]>> : n \in 0..MaxOperand}
        \cup {<<" ", "1", " ">>, <<"-", "0">>, <<"+", "2", ".">>, <<"-", "1">>}
        \cup {<<>>, <<"a">>, <<"1", " ", "2">>, <<".">>}

ValidOps == {<<"+">>, <<"-">>, <<"*">>, <<"/">>}

OperatorLines == ValidOps \cup {<<>>, <<"x">>, <<"+", " ">>, <<"*", "*">>}

ReplyLines ==
    {<<"y">>, <<"Y">>, <<"n">>, <<>>, <<"y", "e", "s">>, <<" ", "y">>, <<"y", " ">>}

-----------------------------------------------------------------------------
(* Lines written to stdout *)

Banner == [line |-> "=== Kalkulator 4 Angka ==="]
WarnOp == [line |-> "Operator tidak valid! Masukkan +, -, *, atau /"]
ErrNum == [line |-> "Error: Masukkan angka yang valid!"]
Farewell == [line |-> "Terima kasih!"]
Perhitungan(ns, ops) == [line |-> "Perhitungan", nums |-> ns, operators |-> ops]
Hasil(h) == [line |-> "Hasil", hasil |-> h]

CountOf(e, s) == Cardinality({k \in DOMAIN s : s[k] = e})

-----------------------------------------------------------------------------
Init ==
    /\ pc = "main"
    /\ i = 0
    /\ nums = <<>>
    /\ operators = <<>>
    /\ hasil = Unbound
    /\ inp = <<>>
    /\ out = <<>>
    /\ exc = "none"

\* main() is entered: banner, nums = [], the first operand prompt
Main ==
    /\ pc = "main"
    /\ pc' = "num_input"
    /\ i' = 0
    /\ nums' = <<>>
    /\ operators' = <<>>
    /\ hasil' = Unbound
    /\ out' = <<Banner>>
    /\ UNCHANGED <<inp, exc>>

\* slip: a ValueError prompts for the same operand again
NumInput_Retry(line) ==
    /\ pc = "num_input"
    /\ inp' = line
    /\ LET r == float(line) IN
        IF r.k = "raise"
        THEN /\ out' = Append(out, ErrNum)
             /\ Len(out) < 4
             /\ pc' = "num_input"
             /\ UNCHANGED <<i, nums, operators, hasil, exc>>
        ELSE /\ nums' = Append(nums, r.v)
             /\ IF i + 1 < NumOperands
                THEN /\ i' = i + 1
                     /\ pc' = "num_input"
                ELSE /\ i' = 0
                     /\ pc' = "op_input"
             /\ UNCHANGED <<operators, hasil, out, exc>>

\* one operand prompt answered: float(input(...)), append, next iteration;
\* a ValueError leaves the try block for the except clause and main() returns
\* (i keeps the index of the rejected operand until main() is entered again)
NumInput(line) ==
    /\ pc = "num_input"
    /\ inp' = line
    /\ LET r == float(line) IN
        IF r.k = "raise"
        THEN /\ out' = Append(out, ErrNum)
             /\ pc' = "repeat_prompt"
             /\ nums' = <<>>
             /\ UNCHANGED <<i, operators, hasil, exc>>
        ELSE /\ nums' = Append(nums, r.v)
             /\ IF i + 1 < NumOperands
                THEN /\ i' = i + 1
                     /\ pc' = "num_input"
                ELSE /\ i' = 0
                     /\ pc' = "op_input"
             /\ UNCHANGED <<operators, hasil, out, exc>>

\* slip: if instead of while, the second answer is appended unchecked
OpInput_IfNotWhile(line) ==
    /\ pc \in {"op_input", "op_retry"}
    /\ inp' = line
    /\ IF line \notin ValidOps /\ pc = "op_input"
       THEN /\ CountOf(WarnOp, out) < MaxWarn
            /\ out' = Append(out, WarnOp)
            /\ pc' = "op_retry"
            /\ UNCHANGED <<i, nums, operators, hasil, exc>>
       ELSE /\ operators' = Append(operators, line)
            /\ IF i + 1 < NumOperators
               THEN /\ i' = i + 1
                    /\ pc' = "op_input"
                    /\ hasil' = hasil
               ELSE /\ i' = 0
                    /\ pc' = "compute"
                    /\ hasil' = nums[1]
            /\ UNCHANGED <<nums, out, exc>>

\* one operator prompt answered (the prompt of the for body or of the while
\* body): an invalid symbol warns and prompts again, a valid one is appended
OpInput(line) ==
    /\ pc \in {"op_input", "op_retry"}
    /\ inp' = line
    /\ IF line \notin ValidOps
       THEN /\ CountOf(WarnOp, out) < MaxWarn
            /\ out' = Append(out, WarnOp)
            /\ pc' = "op_retry"
            /\ UNCHANGED <<i, nums, operators, hasil, exc>>
       ELSE /\ operators' = Append(operators, line)
            /\ IF i + 1 < NumOperators
               THEN /\ i' = i + 1
                    /\ pc' = "op_input"
                    /\ hasil' = hasil
               ELSE /\ i' = 0
                    /\ pc' = "compute"
                    /\ hasil' = nums[1]
            /\ UNCHANGED <<nums, out, exc>>

\* slip: the '-' branch calls tambah
Dispatch_MinusAdds(op, a, b) ==
    IF op = <<"+">> THEN tambah(a, b)
    ELSE IF op = <<"-">> THEN tambah(a, b)
    ELSE IF op = <<"*">> THEN kali(a, b)
    ELSE IF op = <<"/">> THEN bagi(a, b)
    ELSE Ret(a)

\* the if/elif chain of one fold iteration
Dispatch(op, a, b) ==
    IF op = <<"+">> THEN tambah(a, b)
    ELSE IF op = <<"-">> THEN kurang(a, b)
    ELSE IF op = <<"*">> THEN kali(a, b)
    ELSE IF op = <<"/">> THEN bagi(a, b)
    ELSE Ret(a)

\* one iteration of the fold; a TypeError is not caught by except ValueError
FoldStep ==
    /\ pc = "compute"
    /\ LET r == Dispatch(operators[i + 1], hasil, nums[i + 2]) IN
        IF r.k = "raise"
        THEN /\ pc' = "crashed"
             /\ exc' = r.e
             /\ UNCHANGED <<i, hasil>>
        ELSE /\ hasil' = r.v
             /\ exc' = exc
             /\ IF i + 1 < NumOperators
                THEN /\ i' = i + 1
                     /\ pc' = "compute"
                ELSE /\ i' = 0
                     /\ pc' = "report"
    /\ UNCHANGED <<nums, operators, inp, out>>

\* the two report lines; main() returns and its locals are gone
Report ==
    /\ pc = "report"
    /\ out' = out \o <<Perhitungan(nums, operators), Hasil(hasil)>>
    /\ pc' = "repeat_prompt"
    /\ nums' = <<>>
    /\ operators' = <<>>
    /\ hasil' = Unbound
    /\ UNCHANGED <<i, inp, exc>>

\* slip: any answer that starts with y or Y repeats
Repeat_StartsWith(line) ==
    /\ pc = "repeat_prompt"
    /\ inp' = line
    /\ IF ~(line # <<>> /\ lower(line)[1] = "y")
       THEN /\ out' = Append(out, Farewell)
            /\ pc' = "done"
       ELSE /\ out' = out
            /\ pc' = "main"
    /\ UNCHANGED <<i, nums, operators, hasil, exc>>

\* the repeat prompt answered
Repeat(line) ==
    /\ pc = "repeat_prompt"
    /\ inp' = line
    /\ IF lower(line) # <<"y">>
       THEN /\ out' = Append(out, Farewell)
            /\ pc' = "done"
       ELSE /\ out' = out
            /\ pc' = "main"
    /\ UNCHANGED <<i, nums, operators, hasil, exc>>

Next ==
    \/ Main
    \/ \E line \in OperandLines : NumInput(line)
    \/ \E line \in OperatorLines : OpInput(line)
    \/ FoldStep
    \/ Report
    \/ \E line \in ReplyLines : Repeat(line)

Spec == Init /\ [][Next]_vars

\* The program's own steps run to completion, and the user answers the
\* operator prompt with a valid symbol sooner or later.
FairSpec ==
    /\ Spec
    /\ WF_vars(Main)
    /\ WF_vars(FoldStep)
    /\ WF_vars(Report)
    /\ WF_vars(\E line \in ValidOps : OpInput(line))

-----------------------------------------------------------------------------
(* Vocabulary of the properties *)

Symbols == {<<"+">>, <<"-">>, <<"*">>, <<"/">>}

F(n) == PyFloat(<<n, 1>>)

\* op applied to two rationals, as arithmetic
Arith(op, p, q) ==
    CASE op = <<"+">> -> RatAdd(p, q)
      [] op = <<"-">> -> RatSub(p, q)
      [] op = <<"*">> -> RatMul(p, q)
      [] op = <<"/">> -> RatDiv(p, q)

\* fold step j (1..3) of the expression divides by zero
DivZeroAt(ns, ops, j) == ops[j] = <<"/">> /\ RatIsZero(ns[j + 1].q)

NoDivZero(ns, ops) == \A j \in 1..3 : ~DivZeroAt(ns, ops, j)

OnlyLastDivZero(ns, ops) ==
    /\ DivZeroAt(ns, ops, 3)
    /\ ~DivZeroAt(ns, ops, 1)
    /\ ~DivZeroAt(ns, ops, 2)

IsExprAt(k) == k \in DOMAIN out /\ out[k].line = "Perhitungan"

InOpLoop == pc \in {"op_input", "op_retry"}

-----------------------------------------------------------------------------
\* C1: whenever an expression line has been reported whose fold divides by
\* zero at no step, the result line that follows it holds
\* ((n0 o0 n1) o1 n2) o2 n3, the operators applied strictly in input order;
\* and such an evaluation never ends in an uncaught exception.
C1_LeftFold ==
    /\ \A k \in DOMAIN out :
        (IsExprAt(k) /\ NoDivZero(out[k].nums, out[k].operators)) =>
            LET ns == out[k].nums
                ops == out[k].operators
            IN  /\ k + 1 \in DOMAIN out
                /\ out[k + 1] =
                     Hasil(PyFloat(Arith(ops[3],
                        Arith(ops[2], Arith(ops[1], ns[1].q, ns[2].q), ns[3].q),
                        ns[4].q)))
    /\ (pc = "crashed" /\ Len(operators) = 3) => ~NoDivZero(nums, operators)

\* 1 + 2 * 2 - 1 was reported as 5 (precedence would give 4)
C1_Witness ==
    \E k \in DOMAIN out :
        /\ out[k] = Perhitungan(<<F(1), F(2), F(2), F(1)>>, <<<<"+">>, <<"*">>, <<"-">>>>)
        /\ k + 1 \in DOMAIN out
        /\ out[k + 1] = Hasil(F(5))

\* C2: a fold step that divides a numeric running result by the operand b
\* never raises; for b = 0 it leaves the error marker in hasil, for b # 0 a
\* float q with q * b = a, the quotient.
C2_Bagi ==
    [][(pc = "compute" /\ operators[i + 1] = <<"/">> /\ hasil.t = "float") =>
        /\ pc' # "crashed"
        /\ exc' = "none"
        /\ IF RatIsZero(nums[i + 2].q)
           THEN hasil' = PyStr("Error: Tidak bisa dibagi dengan 0")
           ELSE /\ hasil'.t = "float"
                /\ RatMul(hasil'.q, nums[i + 2].q) = hasil.q]_vars

\* 1 / 2 left one half in hasil
C2_Witness ==
    /\ pc = "compute"
    /\ i = 1
    /\ operators[1] = <<"/">>
    /\ nums[1] = F(1)
    /\ nums[2] = F(2)
    /\ hasil = PyFloat(<<1, 2>>)

\* C3: while the fold or the report executes (and on every reported
\* expression line) the operator sequence has exactly three entries, each
\* one of + - * /.
C3_ValidOperatorsOnly ==
    /\ pc \in {"compute", "report", "crashed"} =>
        /\ Len(operators) = 3
        /\ \A k \in 1..3 : operators[k] \in Symbols
    /\ \A k \in DOMAIN out : IsExprAt(k) =>
        /\ Len(out[k].operators) = 3
        /\ \A j \in 1..3 : out[k].operators[j] \in Symbols

\* the fold runs after the user was warned about an invalid symbol
C3_Witness ==
    /\ pc = "compute"
    /\ CountOf(WarnOp, out) > 0
    /\ inp \in Symbols

\* C4: an operand line that float() rejects ends the evaluation at once:
\* the invalid-number message is written, no expression or result line is,
\* no operator is read and no fold result bound, no exception escapes, and
\* the next prompt is the repeat prompt, where "y" enters main() afresh.
C4_AbortOnBadNumber ==
    [][/\ (pc = "num_input" /\ float(inp').k = "raise") =>
            /\ pc' = "repeat_prompt"
            /\ out' = Append(out, ErrNum)
            /\ \A k \in DOMAIN out' : out'[k].line \notin {"Perhitungan", "Hasil"}
            /\ operators' = <<>>
            /\ hasil' = Unbound
            /\ exc' = "none"
       /\ (pc = "repeat_prompt" /\ inp' = <<"y">>) => pc' = "main"
       /\ pc = "main" =>
            (pc' = "num_input" /\ i' = 0 /\ nums' = <<>> /\ out' = <<Banner>>)]_vars

\* the third operand line, "1 2", was rejected after two good operands
C4_Witness ==
    /\ pc = "repeat_prompt"
    /\ i = 2
    /\ inp = <<"1", " ", "2">>
    /\ out = <<Banner, ErrNum>>

\* C5: at the repeat prompt exactly the answers y and Y start another
\* evaluation; every other answer writes the closing message and ends the
\* session; the closing message is on stdout once when the session has
\* ended and never before, and nothing happens after the end.
C5_RepeatOnlyOnY ==
    /\ [](CountOf(Farewell, out) = IF pc = "done" THEN 1 ELSE 0)
    /\ [][/\ pc = "repeat_prompt" =>
                /\ (inp' \in {<<"y">>, <<"Y">>}) <=> (pc' = "main")
                /\ pc' # "main" => (pc' = "done" /\ out' = Append(out, Farewell))
          /\ pc = "done" => FALSE]_vars

\* the answer "y " (trailing blank) ended the session
C5_Witness ==
    /\ pc = "done"
    /\ inp = <<"y", " ">>
    /\ out[Len(out)] = Farewell

\* C6: when only the last fold step divides by zero, the evaluation does not
\* end in an exception and the result line it reports holds the error
\* marker, not a number.
C6_LastStepDivZero ==
    /\ (pc = "crashed" /\ Len(operators) = 3) => ~OnlyLastDivZero(nums, operators)
    /\ (pc \in {"compute", "report"} /\ OnlyLastDivZero(nums, operators)) =>
            exc = "none"
    /\ (pc = "report" /\ OnlyLastDivZero(nums, operators)) =>
            hasil = PyStr("Error: Tidak bisa dibagi dengan 0")
    /\ \A k \in DOMAIN out :
        (IsExprAt(k) /\ OnlyLastDivZero(out[k].nums, out[k].operators)) =>
            /\ k + 1 \in DOMAIN out
            /\ out[k + 1] = Hasil(PyStr("Error: Tidak bisa dibagi dengan 0"))

\* 2 / 1 * 2 / 0 was reported with the marker as its result
C6_Witness ==
    \E k \in DOMAIN out :
        /\ out[k] = Perhitungan(<<F(2), F(1), F(2), F(0)>>, <<<<"/">>, <<"*">>, <<"/">>>>)
        /\ k + 1 \in DOMAIN out
        /\ out[k + 1] = Hasil(ErrBagi)

\* C7: no exception escapes main(): the process never ends in an uncaught
\* exception, whatever operands and operators were entered.
C7_NoCrash == pc # "crashed" /\ exc = "none"

\* C8: once hasil holds the error marker, every later fold step leaves it
\* there and the evaluation goes on to the report.
C8_ShortCircuit ==
    [][(pc = "compute" /\ hasil.t = "str") =>
        /\ pc' \in {"compute", "report"}
        /\ hasil' = hasil]_vars

\* C9: the phases follow Start -> CollectInputs -> Validate -> Compute ->
\* Report -> repeat prompt -> {CollectInputs | End}: operand prompts advance
\* 1..4, then operator prompts 1..3, then the fold, then the two report
\* lines, then the repeat prompt, which follows only a report or an abort.
C9_PhaseOrder ==
    [][/\ pc = "main" => (pc' = "num_input" /\ i' = 0)
       /\ pc = "num_input" =>
            \/ pc' = "num_input" /\ i' = i + 1 /\ i' < 4 /\ Len(nums') = i'
            \/ pc' = "op_input" /\ i = 3 /\ i' = 0 /\ Len(nums') = 4
            \/ pc' = "repeat_prompt" /\ out'[Len(out')] = ErrNum
       /\ InOpLoop =>
            \/ pc' = "op_retry" /\ i' = i /\ operators' = operators
            \/ pc' = "op_input" /\ i' = i + 1 /\ i' < 3 /\ Len(operators') = i'
            \/ pc' = "compute" /\ i = 2 /\ i' = 0 /\ Len(operators') = 3
       /\ pc = "compute" =>
            \/ pc' = "compute" /\ i' = i + 1 /\ i' < 3
            \/ pc' = "report" /\ i = 2
       /\ pc = "report" =>
            /\ pc' = "repeat_prompt"
            /\ Len(out') = Len(out) + 2
            /\ out'[Len(out') - 1].line = "Perhitungan"
            /\ out'[Len(out')].line = "Hasil"
       /\ pc = "repeat_prompt" => pc' \in {"main", "done"}
       /\ pc' = "repeat_prompt" => pc \in {"report", "num_input"}
       /\ \A k \in DOMAIN out' :
            out'[k].line \in {"Perhitungan", "Hasil"} =>
                (pc = "report" \/ (k \in DOMAIN out /\ out[k] = out'[k]))]_vars

\* C10: an invalid symbol at operator prompt i warns and prompts for i
\* again, operands, accepted operators and index unchanged; the loop is left
\* only by a valid symbol, which is appended; and once the operators are
\* being read the evaluation eventually reaches the report.
C10_RetryLoop ==
    /\ [][(InOpLoop /\ inp' \notin Symbols) =>
            /\ pc' = "op_retry"
            /\ out' = Append(out, WarnOp)
            /\ UNCHANGED <<i, nums, operators>>]_vars
    /\ [][(InOpLoop /\ (pc' \notin {"op_input", "op_retry"} \/ i' # i)) =>
            /\ inp' \in Symbols
            /\ operators' = Append(operators, inp')
            /\ UNCHANGED <<nums, out>>]_vars
    /\ (InOpLoop ~> (pc = "report"))

====
